---- MODULE Spec2Model ----
(***************************************************************************)
(* A model of the serde_cst decoder (src/src/de.rs): the Deserializer over *)
(* a borrowed byte buffer, its header gate, its primitive readers and the  *)
(* serde dispatch surface (bool, raw numerics, str, seq, tuple, struct,    *)
(* map, enum, any).                                                        *)
(*                                                                         *)
(* Bytes are integers 0..255 and buffers are sequences of bytes.  A usize  *)
(* or u32 built from four bytes is held as the integer congruent to it     *)
(* modulo 2^32 in -2^31 .. 2^31-1 (TLC's integers are 32 bits wide);       *)
(* equality is exact under that encoding and the one ordering test the     *)
(* code makes on such a value (the slice bound check) goes through         *)
(* ExceedsLen.                                                             *)
(***************************************************************************)
EXTENDS Integers, Sequences, FiniteSets, TLC

VARIABLES buf, input, byteswapped, op, arg, res, pre, header

vars == <<buf, input, byteswapped, op, arg, res, pre, header>>

(***************************************************************************)
(* Bounds of the model.                                                    *)
(***************************************************************************)
\* longest field stream, in tokens, behind a well-formed header
MaxTokens == 2
\* longest field stream of a record, in texts (names and values)
MaxFields == 4
\* longest field stream of a sequence, in words and texts
MaxItems == 3
\* longest field stream, in tokens, behind each of the header variants
MaxHeaderTokens == 1
\* longest field stream of a CstVal, in words and texts
MaxVoiceItems == 3
\* longest run of words behind the five leading fields of a Body
MaxTreeWords == 2
\* largest num_f0_models of the Header a Body is decoded with
MaxModels == 2

(***************************************************************************)
(* Byte sequences.                                                         *)
(***************************************************************************)
Take(s, n) == SubSeq(s, 1, n)

Drop(s, n) == SubSeq(s, n + 1, Len(s))

\* <[u8]>::starts_with
StartsWith(s, p) == Len(s) >= Len(p) /\ Take(s, Len(p)) = p

\* Option<T>: None is the empty sequence, Some(x) the one-element sequence
None == <<>>

Some(x) == <<x>>

\* "CMU_FLITE_CG_VOXDATA-v2.0" as ASCII
CST_FLITE_HEADER ==
  <<67, 77, 85, 95, 70, 76, 73, 84, 69, 95, 67, 71, 95,
    86, 79, 88, 68, 65, 84, 65, 45, 118, 50, 46, 48>>

CST_LITTLE_ENDIAN_BYTE_VALUE == 1

\* the 32-bit word of four little-endian bytes, as its residue in
\* -2^31 .. 2^31-1: i32::from_le_bytes exactly, u32/usize up to that encoding
FromLeBytes4(b) ==
  b[1] + 256 * b[2] + 65536 * b[3]
       + 16777216 * (IF b[4] >= 128 THEN b[4] - 256 ELSE b[4])

\* u16::from_le_bytes, u8::from_le_bytes
FromLeBytes2(b) == b[1] + 256 * b[2]

FromLeBytes1(b) == b[1]

\* size > n for a usize held as a residue (n is a buffer length, below 2^31)
ExceedsLen(size, n) == size < 0 \/ size > n

\* core::str::from_utf8 on the byte values the model's buffers hold: ASCII
\* bytes and the lone continuation byte 0x80, which no lead byte precedes
IsUtf8(bytes) == \A i \in 1..Len(bytes) : bytes[i] < 128

(***************************************************************************)
(* The Deserializer d = [input, byteswapped] and the outcome of a call:    *)
(* Ok(value), Err(error) or a panic, each with the Deserializer as the     *)
(* call left it.  d.log records every advance of d.input, in order, as     *)
(* <<what was read, bytes consumed, byteswapped before the read>>.         *)
(***************************************************************************)
NewDeserializer(s) == [input |-> s, byteswapped |-> None, log |-> <<>>]

Ok(d, v) == [kind |-> "Ok", d |-> d, val |-> v, err |-> <<>>]

Err(d, e) == [kind |-> "Err", d |-> d, val |-> <<>>, err |-> e]

Panic(d, msg) == [kind |-> "Panic", d |-> d, val |-> <<>>, err |-> <<msg>>]

\* an advance that keeps the bytes read instead of the bytes behind them
AdvanceKeepsHead(d, what, n) ==
  [d EXCEPT !.input = Take(@, n),
            !.log = Append(@, <<what, n, d.byteswapped>>)]

\* self.input = &self.input[n..], with the read noted in the log
Advance(d, what, n) ==
  [d EXCEPT !.input = Drop(@, n),
            !.log = Append(@, <<what, n, d.byteswapped>>)]

\* get_size_of_next; what names the count being read, for the log
GetSizeOfNext(d, what) ==
  IF Len(d.input) < 4
  THEN Err(d, <<"Eof">>)
  ELSE Ok(Advance(d, what, 4), FromLeBytes4(Take(d.input, 4)))

\* validate_header without its early return for a Deserializer already validated
ValidateHeaderNoGuard(d) ==
  LET Marked(s) ==
        IF s.kind # "Ok"
        THEN s
        ELSE Ok([s.d EXCEPT !.byteswapped =
                               Some(s.val # CST_LITTLE_ENDIAN_BYTE_VALUE)],
                <<>>)
  IN  IF ~StartsWith(d.input, CST_FLITE_HEADER)
      THEN Err(d, <<"InvalidHeader">>)
      ELSE IF Len(d.input) < Len(CST_FLITE_HEADER) + 1
      THEN Panic(d, "range start index 26 out of range for slice of length 25")
      ELSE Marked(GetSizeOfNext(
                    Advance(d, "signature", Len(CST_FLITE_HEADER) + 1),
                    "marker"))

\* validate_header with the marker test inverted
ValidateHeaderInverted(d) ==
  LET Marked(s) ==
        IF s.kind # "Ok"
        THEN s
        ELSE Ok([s.d EXCEPT !.byteswapped =
                               Some(s.val = CST_LITTLE_ENDIAN_BYTE_VALUE)],
                <<>>)
  IN  IF d.byteswapped # None
      THEN Ok(d, <<>>)
      ELSE IF ~StartsWith(d.input, CST_FLITE_HEADER)
      THEN Err(d, <<"InvalidHeader">>)
      ELSE IF Len(d.input) < Len(CST_FLITE_HEADER) + 1
      THEN Panic(d, "range start index 26 out of range for slice of length 25")
      ELSE Marked(GetSizeOfNext(
                    Advance(d, "signature", Len(CST_FLITE_HEADER) + 1),
                    "marker"))

\* validate_header; Marked is what it does with the marker word it read
ValidateHeader(d) ==
  LET Marked(s) ==
        IF s.kind # "Ok"
        THEN s
        ELSE Ok([s.d EXCEPT !.byteswapped =
                               Some(s.val # CST_LITTLE_ENDIAN_BYTE_VALUE)],
                <<>>)
  IN  IF d.byteswapped # None
      THEN Ok(d, <<>>)
      ELSE IF ~StartsWith(d.input, CST_FLITE_HEADER)
      THEN Err(d, <<"InvalidHeader">>)
      ELSE IF Len(d.input) < Len(CST_FLITE_HEADER) + 1
      THEN Panic(d, "range start index 26 out of range for slice of length 25")
      ELSE Marked(GetSizeOfNext(
                    Advance(d, "signature", Len(CST_FLITE_HEADER) + 1),
                    "marker"))

\* parse_bool_unchecked_header taking only the data byte 1 for true
ParseBoolOnlyOne(d) ==
  LET Sized(s) ==
        IF s.kind # "Ok"
        THEN s
        ELSE IF s.val # 1
        THEN Err(s.d, <<"ExpectedSize", s.val, 1>>)
        ELSE IF Len(s.d.input) < 2
        THEN Err(s.d, <<"Eof">>)
        ELSE Ok(Advance(s.d, "bool", 2), s.d.input[1] = 1)
  IN  Sized(GetSizeOfNext(d, "boolsize"))

\* parse_bool_unchecked_header; Sized is what it does with the size it read
ParseBoolUncheckedHeader(d) ==
  LET Sized(s) ==
        IF s.kind # "Ok"
        THEN s
        ELSE IF s.val # 1
        THEN Err(s.d, <<"ExpectedSize", s.val, 1>>)
        ELSE IF Len(s.d.input) < 2
        THEN Err(s.d, <<"Eof">>)
        ELSE Ok(Advance(s.d, "bool", 2), s.d.input[1] # 0)
  IN  Sized(GetSizeOfNext(d, "boolsize"))

\* parse_bool
ParseBool(d) ==
  LET Valid(v) == IF v.kind # "Ok" THEN v ELSE ParseBoolUncheckedHeader(v.d)
  IN  Valid(ValidateHeader(d))

\* parse_str advancing past the text but not past its trailing null
ParseStrKeepsNull(d) ==
  LET Sized(s) ==
        IF s.kind # "Ok"
        THEN s
        ELSE IF ExceedsLen(s.val, Len(s.d.input))
        THEN Err(s.d, <<"Eof">>)
        ELSE IF s.val = 0
        THEN Panic(s.d, "attempt to subtract with overflow")
        ELSE IF s.d.input[s.val] # 0
        THEN Err(s.d, <<"WrongLength", s.val>>)
        ELSE IF ~IsUtf8(Take(s.d.input, s.val - 1))
        THEN Err(s.d, <<"NotUtf8">>)
        ELSE Ok(Advance(s.d, "str", s.val - 1), Take(s.d.input, s.val - 1))
      Valid(v) ==
        IF v.kind # "Ok" THEN v ELSE Sized(GetSizeOfNext(v.d, "strlen"))
  IN  Valid(ValidateHeader(d))

\* parse_str: bytes[size - 1] with size = 0 panics (the subtraction overflows
\* in a debug build, the index is out of range in a release build)
ParseStr(d) ==
  LET Sized(s) ==
        IF s.kind # "Ok"
        THEN s
        ELSE IF ExceedsLen(s.val, Len(s.d.input))
        THEN Err(s.d, <<"Eof">>)
        ELSE IF s.val = 0
        THEN Panic(s.d, "attempt to subtract with overflow")
        ELSE IF s.d.input[s.val] # 0
        THEN Err(s.d, <<"WrongLength", s.val>>)
        ELSE IF ~IsUtf8(Take(s.d.input, s.val - 1))
        THEN Err(s.d, <<"NotUtf8">>)
        ELSE Ok(Advance(s.d, "str", s.val), Take(s.d.input, s.val - 1))
      Valid(v) ==
        IF v.kind # "Ok" THEN v ELSE Sized(GetSizeOfNext(v.d, "strlen"))
  IN  Valid(ValidateHeader(d))

\* read_bytes taking the slot to be as wide as the value
ReadBytesByWidth(d, N, M) ==
  IF Len(d.input) < M
  THEN Err(d, <<"Eof">>)
  ELSE Ok(Advance(d, "raw", M), Take(d.input, M))

\* read_bytes::<N, M>
ReadBytes(d, N, M) ==
  IF Len(d.input) < N
  THEN Err(d, <<"Eof">>)
  ELSE Ok(Advance(d, "raw", N), Take(d.input, M))

(***************************************************************************)
(* Target shapes: the type T of T::deserialize(&mut deserializer).  A name *)
(* (field or variant) is the byte sequence of its text.                    *)
(***************************************************************************)
Prim(k) == [k |-> k, of |-> <<>>, names |-> <<>>]

SeqOf(T) == [k |-> "seq", of |-> <<T>>, names |-> <<>>]

TupleOf(Ts) == [k |-> "tuple", of |-> Ts, names |-> <<>>]

StructOf(fields, Ts) == [k |-> "struct", of |-> Ts, names |-> fields]

MapOf(K, V) == [k |-> "map", of |-> <<K, V>>, names |-> <<>>]

EnumOf(variants) == [k |-> "enum", of |-> <<>>, names |-> variants]

\* voice.rs: CstVal; Vec<T> sized by its seed; Body with the Header it borrows
CstVal == Prim("cstval")

FixedLengthSeq(T, len) ==
  [k |-> "fixed_seq", of |-> <<T>>, names |-> <<>>, len |-> len]

BodyDeserializer(hd) == [k |-> "body", of |-> <<>>, names |-> <<>>, header |-> hd]

\* an outcome of an access object's method, as an outcome of the Deserializer
\* the access object borrows
OfDeserializer(r) == [r EXCEPT !.d = r.d.de]

RECURSIVE Deserialize(_, _)

\* seed.deserialize(&mut *self.de): an access object handing its Deserializer
\* to the seed T
SeedDeserialize(T, de) == Deserialize(T, de)

\* SeqValues::new, SeqValues::new_with_length
SeqValuesNew(d) == [de |-> d, len |-> None, idx |-> 0]

SeqValuesNewWithLength(d, len) == [de |-> d, len |-> Some(len), idx |-> 0]

\* StructValues::new
StructValuesNew(d, fields) == [de |-> d, fields |-> fields, idx |-> 0]

\* next_element_seed ending the sequence one element early
NextElementSeedOneShort(sv, T) ==
  LET Element(sv1, r) ==
        IF r.kind = "Ok"
        THEN Ok([sv1 EXCEPT !.de = r.d, !.idx = @ + 1], Some(r.val))
        ELSE [r EXCEPT !.d = [sv1 EXCEPT !.de = r.d, !.idx = @ + 1]]
      Next1(sv1) ==
        IF sv1.len[1] = sv1.idx + 1
        THEN Ok(sv1, None)
        ELSE Element(sv1, SeedDeserialize(T, sv1.de))
      Sized(g) ==
        IF g.kind # "Ok"
        THEN Err([sv EXCEPT !.de = g.d], g.err)
        ELSE Next1([sv EXCEPT !.de = g.d, !.len = Some(g.val)])
  IN  Sized(IF sv.len = None
            THEN GetSizeOfNext(sv.de, "seqlen")
            ELSE Ok(sv.de, sv.len[1]))

\* <SeqValues as SeqAccess>::next_element_seed, with seed T: Sized is what it
\* does once the length is known, Next1 with the access object that knows it,
\* Element with the outcome of the seed
NextElementSeed(sv, T) ==
  LET Element(sv1, r) ==
        IF r.kind = "Ok"
        THEN Ok([sv1 EXCEPT !.de = r.d, !.idx = @ + 1], Some(r.val))
        ELSE [r EXCEPT !.d = [sv1 EXCEPT !.de = r.d, !.idx = @ + 1]]
      Next1(sv1) ==
        IF sv1.len[1] = sv1.idx
        THEN Ok(sv1, None)
        ELSE Element(sv1, SeedDeserialize(T, sv1.de))
      Sized(g) ==
        IF g.kind # "Ok"
        THEN Err([sv EXCEPT !.de = g.d], g.err)
        ELSE Next1([sv EXCEPT !.de = g.d, !.len = Some(g.val)])
  IN  Sized(IF sv.len = None
            THEN GetSizeOfNext(sv.de, "seqlen")
            ELSE Ok(sv.de, sv.len[1]))

\* the field identifier a derived struct's key seed resolves a name to: the
\* position of the field of that name, or 0 for a name of no field (__ignore)
FieldOf(fields, name) ==
  IF \E i \in 1..Len(fields) : fields[i] = name
  THEN CHOOSE i \in 1..Len(fields) : fields[i] = name
  ELSE 0

\* <StructValues as MapAccess>::next_key_seed, with a derived struct's key seed
\* (deserialize_identifier, which is deserialize_str)
StructNextKeySeed(sv) ==
  LET Key(r) ==
        IF r.kind = "Ok"
        THEN Ok([sv EXCEPT !.de = r.d, !.idx = @ + 1],
                Some(FieldOf(sv.fields, r.val)))
        ELSE [r EXCEPT !.d = [sv EXCEPT !.de = r.d]]
  IN  IF Len(sv.fields) = sv.idx
      THEN Ok(sv, None)
      ELSE Key(SeedDeserialize(Prim("str"), sv.de))

\* <StructValues as MapAccess>::next_value_seed, with seed T
StructNextValueSeed(sv, T) ==
  LET Value(r) == [r EXCEPT !.d = [sv EXCEPT !.de = r.d]]
  IN  Value(SeedDeserialize(T, sv.de))

\* next_key_seed without its test for an exhausted buffer
MapNextKeySeedNoEnd(sv, T) ==
  LET Key(r) ==
        IF r.kind = "Ok"
        THEN Ok([sv EXCEPT !.de = r.d], Some(r.val))
        ELSE [r EXCEPT !.d = [sv EXCEPT !.de = r.d]]
  IN  Key(SeedDeserialize(T, sv.de))

\* <SeqValues as MapAccess>::next_key_seed, next_value_seed
MapNextKeySeed(sv, T) ==
  LET Key(r) ==
        IF r.kind = "Ok"
        THEN Ok([sv EXCEPT !.de = r.d], Some(r.val))
        ELSE [r EXCEPT !.d = [sv EXCEPT !.de = r.d]]
  IN  IF sv.de.input = <<>>
      THEN Ok(sv, None)
      ELSE Key(SeedDeserialize(T, sv.de))

MapNextValueSeed(sv, T) ==
  LET Value(r) == [r EXCEPT !.d = [sv EXCEPT !.de = r.d]]
  IN  Value(SeedDeserialize(T, sv.de))

(***************************************************************************)
(* The visitors the targets bring: what each does with its access object.  *)
(* In each, a local operator is what the visitor does with the outcome of  *)
(* the access it has just made.                                            *)
(***************************************************************************)
RECURSIVE VecVisitSeq(_, _, _)
\* Vec<T>: next_element until it answers None
VecVisitSeq(sv, T, acc) ==
  LET Element(n) ==
        IF n.kind # "Ok"
        THEN OfDeserializer(n)
        ELSE IF n.val = None
        THEN Ok(n.d.de, acc)
        ELSE VecVisitSeq(n.d, T, Append(acc, n.val[1]))
  IN  Element(NextElementSeed(sv, T))

RECURSIVE TupleVisitSeq(_, _, _, _)
\* a tuple (T1, .., TN): next_element once per position, from position i on
TupleVisitSeq(sv, Ts, i, acc) ==
  LET Element(n) ==
        IF n.kind # "Ok"
        THEN OfDeserializer(n)
        ELSE IF n.val = None
        THEN Err(n.d.de, <<"Message", "invalid length">>)
        ELSE TupleVisitSeq(n.d, Ts, i + 1, Append(acc, n.val[1]))
  IN  IF i > Len(Ts)
      THEN Ok(sv.de, acc)
      ELSE Element(NextElementSeed(sv, Ts[i]))

\* the end of a derived struct's visit_map: every field must have been given
StructFinish(d, got) ==
  IF \E i \in 1..Len(got) : got[i] = None
  THEN Err(d, <<"Message", "missing field">>)
  ELSE Ok(d, [i \in 1..Len(got) |-> got[i][1]])

RECURSIVE StructVisitMap(_, _, _)
\* a derived struct: next_key until None; a name of no field has its value
\* skipped as IgnoredAny, a field given twice is an error
StructVisitMap(sv, Ts, got) ==
  LET Value(key, v) ==
        IF v.kind # "Ok"
        THEN OfDeserializer(v)
        ELSE StructVisitMap(v.d, Ts, [got EXCEPT ![key.val[1]] = Some(v.val)])
      Key(key) ==
        IF key.kind # "Ok"
        THEN OfDeserializer(key)
        ELSE IF key.val = None
        THEN StructFinish(key.d.de, got)
        ELSE IF key.val[1] = 0
        THEN OfDeserializer(StructNextValueSeed(key.d, Prim("ignored_any")))
        ELSE IF got[key.val[1]] # None
        THEN Err(key.d.de, <<"Message", "duplicate field">>)
        ELSE Value(key, StructNextValueSeed(key.d, Ts[key.val[1]]))
  IN  Key(StructNextKeySeed(sv))

RECURSIVE MapVisitMap(_, _, _, _)
\* BTreeMap<K, V>: next_entry until None, a later entry replacing an earlier
\* one of the same key
MapVisitMap(sv, K, V, acc) ==
  LET Value(key, v) ==
        IF v.kind # "Ok"
        THEN OfDeserializer(v)
        ELSE MapVisitMap(v.d, K, V,
                         {e \in acc : e[1] # key.val[1]}
                           \cup {<<key.val[1], v.val>>})
      Key(key) ==
        IF key.kind # "Ok"
        THEN OfDeserializer(key)
        ELSE IF key.val = None
        THEN Ok(key.d.de, acc)
        ELSE Value(key, MapNextValueSeed(key.d, V))
  IN  Key(MapNextKeySeed(sv, K))

\* the variant and the payload target a CstVal discriminant selects
CstValVariant(discrim) ==
  CASE discrim = 0 -> <<"Cons", Prim("i32")>>
    [] discrim = 1 -> <<"Int", Prim("i32")>>
    [] discrim = 3 -> <<"Float", Prim("f32")>>
    [] discrim = 5 -> <<"Str", Prim("str")>>
    [] discrim = 7 -> <<"FirstFree", Prim("i32")>>
    [] OTHER -> <<"Other", Prim("i32")>>

\* CstValVisitor::visit_seq: next_element for the discriminant (an i32), then
\* next_element for the payload the discriminant selects
CstValVisitSeq(sv) ==
  LET Payload(variant, v) ==
        IF v.kind # "Ok"
        THEN OfDeserializer(v)
        ELSE IF v.val = None
        THEN Err(v.d.de, <<"Message", "invalid length">>)
        ELSE Ok(v.d.de, <<variant[1], v.val[1]>>)
      Selected(n, variant) == Payload(variant, NextElementSeed(n.d, variant[2]))
      Discriminant(n) ==
        IF n.kind # "Ok"
        THEN OfDeserializer(n)
        ELSE IF n.val = None
        THEN Err(n.d.de, <<"Message", "invalid length">>)
        ELSE Selected(n, CstValVariant(n.val[1]))
  IN  Discriminant(NextElementSeed(sv, Prim("i32")))

RECURSIVE FixedSeqValuesVisitSeq(_, _, _, _, _)
\* FixedSeqValuesVisitor::visit_seq: for i in 0..len, next_element
FixedSeqValuesVisitSeq(sv, T, len, i, vec) ==
  LET Element(n) ==
        IF n.kind # "Ok"
        THEN OfDeserializer(n)
        ELSE IF n.val = None
        THEN Err(n.d.de, <<"Message", "invalid length">>)
        ELSE FixedSeqValuesVisitSeq(n.d, T, len, i + 1, Append(vec, n.val[1]))
  IN  IF i >= len
      THEN Ok(sv.de, vec)
      ELSE Element(NextElementSeed(sv, T))

\* a derived unit-only enum given the variant name as a str deserializer
EnumVisit(d, variants, name) ==
  IF \E i \in 1..Len(variants) : variants[i] = name
  THEN Ok(d, name)
  ELSE Err(d, <<"Message", "unknown variant">>)

(***************************************************************************)
(* impl de::Deserializer for &mut Deserializer: one operator per method.   *)
(***************************************************************************)
DeserializeAny(d) == Panic(d, "not yet implemented: any")

DeserializeIgnoredAny(d) == DeserializeAny(d)

DeserializeBool(d) == ParseBool(d)

DeserializeI32(d) ==
  LET Read(r) == IF r.kind = "Ok" THEN Ok(r.d, FromLeBytes4(r.val)) ELSE r
  IN  Read(ReadBytes(d, 4, 4))

DeserializeU8(d) ==
  LET Read(r) == IF r.kind = "Ok" THEN Ok(r.d, FromLeBytes1(r.val)) ELSE r
  IN  Read(ReadBytes(d, 4, 1))

DeserializeU16(d) ==
  LET Read(r) == IF r.kind = "Ok" THEN Ok(r.d, FromLeBytes2(r.val)) ELSE r
  IN  Read(ReadBytes(d, 4, 2))

DeserializeU32(d) ==
  LET Read(r) == IF r.kind = "Ok" THEN Ok(r.d, FromLeBytes4(r.val)) ELSE r
  IN  Read(ReadBytes(d, 4, 4))

\* the f32 is held as its bit pattern
DeserializeF32(d) ==
  LET Read(r) == IF r.kind = "Ok" THEN Ok(r.d, FromLeBytes4(r.val)) ELSE r
  IN  Read(ReadBytes(d, 4, 4))

DeserializeU64(d) == Panic(d, "not yet implemented: u64")

DeserializeU128(d) == Panic(d, "not yet implemented: u128")

DeserializeStr(d) == ParseStr(d)

DeserializeUnit(d) == Ok(d, <<>>)

DeserializeSeq(d, T) ==
  LET Valid(v) ==
        IF v.kind # "Ok" THEN v ELSE VecVisitSeq(SeqValuesNew(v.d), T, <<>>)
  IN  Valid(ValidateHeader(d))

\* deserialize_tuple reading an inline count, as deserialize_seq does
DeserializeTupleCounted(d, Ts) == TupleVisitSeq(SeqValuesNew(d), Ts, 1, <<>>)

DeserializeTuple(d, Ts) ==
  TupleVisitSeq(SeqValuesNewWithLength(d, Len(Ts)), Ts, 1, <<>>)

\* deserialize_struct reading an inline count of its own before the fields
DeserializeStructCounted(d, fields, Ts) ==
  LET Sized(g) ==
        IF g.kind # "Ok"
        THEN g
        ELSE StructVisitMap(StructValuesNew(g.d, fields), Ts,
                            [i \in 1..Len(fields) |-> None])
  IN  Sized(GetSizeOfNext(d, "seqlen"))

DeserializeStruct(d, fields, Ts) ==
  StructVisitMap(StructValuesNew(d, fields), Ts, [i \in 1..Len(fields) |-> None])

DeserializeMap(d, K, V) == MapVisitMap(SeqValuesNew(d), K, V, {})

DeserializeEnum(d, variants) ==
  LET Name(s) == IF s.kind # "Ok" THEN s ELSE EnumVisit(s.d, variants, s.val)
  IN  Name(ParseStr(d))

\* <CstVal as Deserialize>::deserialize: deserialize_seq(CstValVisitor)
CstValDeserialize(d) ==
  LET Valid(v) == IF v.kind # "Ok" THEN v ELSE CstValVisitSeq(SeqValuesNew(v.d))
  IN  Valid(ValidateHeader(d))

\* FixedLengthSeq with the visitor's loop starting at 1: one element short
FixedLengthSeqDeserializeOneShort(d, T, len) ==
  LET Valid(v) ==
        IF v.kind # "Ok"
        THEN v
        ELSE FixedSeqValuesVisitSeq(SeqValuesNew(v.d), T, len, 1, <<>>)
  IN  Valid(ValidateHeader(d))

\* <FixedLengthSeq<T> as DeserializeSeed>::deserialize:
\* deserialize_seq(FixedSeqValuesVisitor::new(self.len))
FixedLengthSeqDeserialize(d, T, len) ==
  LET Valid(v) ==
        IF v.kind # "Ok"
        THEN v
        ELSE FixedSeqValuesVisitSeq(SeqValuesNew(v.d), T, len, 0, <<>>)
  IN  Valid(ValidateHeader(d))

\* TreeNode, TreeFeatures, Tree and F0Tree: tuple structs are tuples, a
\* newtype struct is what it wraps
TreeNode == TupleOf(<<Prim("u8"), Prim("u8"), Prim("u16"), CstVal>>)

TreeFeatures == SeqOf(Prim("str"))

Tree == TupleOf(<<TreeNode, TreeFeatures>>)

F0Tree == SeqOf(Tree)

\* BodyVisitor::visit_seq: next_element for db_types, num_types, sample_rate,
\* f0_mean and f0_stddev, then next_element_seed with a FixedLengthSeq of
\* header.features.num_f0_models F0Trees; the Body is the six in that order
BodyVisitSeq(sv, hd) ==
  TupleVisitSeq(sv,
                <<SeqOf(Prim("str")), Prim("i32"), Prim("i32"), Prim("f32"),
                  Prim("f32"),
                  FixedLengthSeq(F0Tree, hd.features.num_f0_models)>>,
                1, <<>>)

\* <BodyDeserializer as DeserializeSeed>::deserialize:
\* deserialize_tuple(6, BodyVisitor::new(self.header))
BodyDeserialize(d, hd) == BodyVisitSeq(SeqValuesNewWithLength(d, 6), hd)

\* T::deserialize(d): the method the target T asks for
Deserialize(T, d) ==
  CASE T.k = "bool" -> DeserializeBool(d)
    [] T.k = "i32" -> DeserializeI32(d)
    [] T.k = "u8" -> DeserializeU8(d)
    [] T.k = "u16" -> DeserializeU16(d)
    [] T.k = "u32" -> DeserializeU32(d)
    [] T.k = "f32" -> DeserializeF32(d)
    [] T.k = "u64" -> DeserializeU64(d)
    [] T.k = "u128" -> DeserializeU128(d)
    [] T.k = "str" -> DeserializeStr(d)
    [] T.k = "unit" -> DeserializeUnit(d)
    [] T.k = "seq" -> DeserializeSeq(d, T.of[1])
    [] T.k = "tuple" -> DeserializeTuple(d, T.of)
    [] T.k = "struct" -> DeserializeStruct(d, T.names, T.of)
    [] T.k = "map" -> DeserializeMap(d, T.of[1], T.of[2])
    [] T.k = "enum" -> DeserializeEnum(d, T.names)
    [] T.k = "any" -> DeserializeAny(d)
    [] T.k = "ignored_any" -> DeserializeIgnoredAny(d)
    [] T.k = "cstval" -> CstValDeserialize(d)
    [] T.k = "fixed_seq" -> FixedLengthSeqDeserialize(d, T.of[1], T.len)
    [] T.k = "body" -> BodyDeserialize(d, T.header)

\* from_bytes::<T>(s)
FromBytes(T, s) == Deserialize(T, NewDeserializer(s))

(***************************************************************************)
(* The buffers the model decodes.                                          *)
(***************************************************************************)
\* a 4-byte little-endian count or raw numeric slot holding n < 256
Word(n) == <<n, 0, 0, 0>>

\* the wire form of a text: count including the trailing null, text, null
StrField(text) == Word(Len(text) + 1) \o text \o <<0>>

NameA == <<97>>

NameB == <<98>>

\* counts, and payloads: a data byte 0x09 or 0x00 with its null, the decimal
\* text "1", a non-UTF-8 text
Tokens ==
  {Word(0), Word(1), Word(2), <<9, 0>>, <<0, 0>>, <<49, 0>>, <<128, 0>>}

\* whole fields for records: the texts "a" and "b"
Fields == {StrField(NameA), StrField(NameB)}

\* the wire form of a boolean: the size 1, the data byte, a null
BoolField(b) == Word(1) \o <<b, 0>>

\* whole fields for sequences: an element count or raw word, and the text "a"
Items == {Word(1), Word(2), StrField(NameA)}

RECURSIVE Streams(_, _)
\* the concatenations of at most n members of parts
Streams(parts, n) ==
  IF n = 0
  THEN {<<>>}
  ELSE LET S == Streams(parts, n - 1)
       IN  S \cup {s \o t : s \in S, t \in parts}

\* signature, separator and marker 1 (native)
HeaderNative == CST_FLITE_HEADER \o <<0>> \o Word(1)

\* the headers a buffer may open with: well formed with the marker 1 or the
\* marker 1 written big-endian, a nonzero separator, a wrong first byte, and
\* buffers that end inside the signature, after it, after the separator and
\* inside the marker
Headers ==
  {HeaderNative,
   CST_FLITE_HEADER \o <<0>> \o <<0, 0, 0, 1>>,
   CST_FLITE_HEADER \o <<1>> \o Word(1),
   <<99>> \o Drop(CST_FLITE_HEADER, 1) \o <<0>> \o Word(1),
   Take(CST_FLITE_HEADER, 24),
   CST_FLITE_HEADER,
   CST_FLITE_HEADER \o <<0>>,
   CST_FLITE_HEADER \o <<0, 1, 0>>,
   <<>>}

\* every header variant, followed by at most MaxHeaderTokens tokens
HeaderBuffers == {h \o s : h \in Headers, s \in Streams(Tokens, MaxHeaderTokens)}

\* a well-formed header followed by at most MaxTokens tokens
TokenBuffers == {HeaderNative \o s : s \in Streams(Tokens, MaxTokens)}

\* a well-formed header followed by at most MaxFields texts, or by at most
\* MaxItems words and texts, or by a boolean of data byte 0x09 and at most one
\* word or text, the boolean alone or behind the word 2
ShapeBuffers ==
  {HeaderNative \o s : s \in Streams(Fields, MaxFields)}
    \cup {HeaderNative \o s : s \in Streams(Items, MaxItems)}
    \cup {HeaderNative \o c \o BoolField(9) \o s :
             c \in {<<>>, Word(2)}, s \in Streams(Items, 1)}

\* whole fields for a CstVal: counts, discriminants and raw payloads, and the
\* text "a"
VoiceItems == {Word(0), Word(1), Word(2), Word(5), StrField(NameA)}

\* a well-formed header followed by at most MaxVoiceItems words and texts
CstValBuffers == {HeaderNative \o s : s \in Streams(VoiceItems, MaxVoiceItems)}

\* the five leading fields of a Body: db_types ["a"], num_types 1,
\* sample_rate 2, f0_mean and f0_stddev of bit pattern 0
BodyHead ==
  Word(1) \o StrField(NameA) \o Word(1) \o Word(2) \o Word(0) \o Word(0)

\* a Tree: TreeNode (0, 1, 2, a CstVal of count 2, discriminant 1 and payload
\* 2) and no feature names
OneTree ==
  Word(0) \o Word(1) \o Word(2) \o Word(2) \o Word(1) \o Word(2) \o Word(0)

TreeWords == {Word(0), Word(1), Word(2)}

\* a well-formed header and the leading fields of a Body, followed by at most
\* MaxTreeWords words, or by a count, two empty F0Trees and at most one word
\* more, or by a count and an F0Tree of one Tree
BodyBuffers ==
  {HeaderNative \o BodyHead \o s : s \in Streams(TreeWords, MaxTreeWords)}
    \cup {HeaderNative \o BodyHead \o Word(2) \o Word(0) \o Word(0) \o s :
            s \in Streams(TreeWords, 1)}
    \cup {HeaderNative \o BodyHead \o c \o Word(1) \o OneTree :
            c \in {Word(1), Word(2)}}

\* the Headers a Body is decoded with, as far as the Body decode reads them
Headers0 == {[features |-> [num_f0_models |-> 0]]}

HeadersUpTo(n) == {[features |-> [num_f0_models |-> m]] : m \in 0..n}

(***************************************************************************)
(* The targets the model decodes into.                                     *)
(***************************************************************************)
SeqTargets == {SeqOf(Prim("str")), SeqOf(Prim("i32"))}

TupleTargets ==
  {TupleOf(<<Prim("bool"), Prim("str")>>),
   TupleOf(<<SeqOf(Prim("str")), Prim("str")>>),
   TupleOf(<<Prim("i32"), Prim("i32"), Prim("str")>>)}

StructTargets ==
  {StructOf(<<NameA>>, <<Prim("str")>>),
   StructOf(<<NameA, NameB>>, <<Prim("str"), Prim("str")>>),
   StructOf(<<NameA>>, <<SeqOf(Prim("str"))>>)}

MapTargets == {MapOf(Prim("str"), Prim("str"))}

EnumTargets == {EnumOf(<<NameA, NameB>>)}

PrimTargets ==
  {Prim(k) : k \in {"bool", "i32", "u8", "u16", "u32", "f32", "u128", "str",
                    "ignored_any"}}

Targets ==
  PrimTargets \cup SeqTargets \cup TupleTargets \cup StructTargets
    \cup MapTargets \cup EnumTargets \cup {CstVal}

(***************************************************************************)
(* The state machine: a buffer, a Deserializer over it (input and          *)
(* byteswapped are its two fields), and the calls made on it.  op, arg and *)
(* res are the last call, its target and its outcome; pre is the           *)
(* Deserializer as that call found it.  from_bytes builds its own          *)
(* Deserializer, decodes one value and drops it; a caller holding a        *)
(* Deserializer may decode value after value.  A panic ends the program.   *)
(* header is the Header the caller holds, decoded before the Body, which a *)
(* Body decode borrows.                                                    *)
(***************************************************************************)
Cur == [input |-> input, byteswapped |-> byteswapped, log |-> <<>>]

InitWith(buffers, headers) ==
  /\ buf \in buffers
  /\ header \in headers
  /\ input = buf
  /\ byteswapped = None
  /\ op = "new"
  /\ arg = Prim("unit")
  /\ res = [kind |-> "New", val |-> <<>>, err |-> <<>>, log |-> <<>>]
  /\ pre = [input |-> buf, byteswapped |-> None]

InitOver(buffers) == InitWith(buffers, Headers0)

Step(name, T, r) ==
  /\ res.kind # "Panic"
  /\ op # "from_bytes"
  /\ input' = r.d.input
  /\ byteswapped' = r.d.byteswapped
  /\ op' = name
  /\ arg' = T
  /\ res' = [kind |-> r.kind, val |-> r.val, err |-> r.err, log |-> r.d.log]
  /\ pre' = [input |-> input, byteswapped |-> byteswapped]
  /\ UNCHANGED <<buf, header>>

CallFromBytes ==
  /\ op = "new"
  /\ \E T \in Targets : Step("from_bytes", T, FromBytes(T, buf))

CallValidateHeader == Step("validate_header", Prim("unit"), ValidateHeader(Cur))

CallDeserializeBool ==
  Step("deserialize_bool", Prim("bool"), DeserializeBool(Cur))

CallDeserializeI32 ==
  Step("deserialize_i32", Prim("i32"), DeserializeI32(Cur))

CallDeserializeU8 ==
  Step("deserialize_u8", Prim("u8"), DeserializeU8(Cur))

CallDeserializeU16 ==
  Step("deserialize_u16", Prim("u16"), DeserializeU16(Cur))

CallDeserializeU32 ==
  Step("deserialize_u32", Prim("u32"), DeserializeU32(Cur))

CallDeserializeF32 ==
  Step("deserialize_f32", Prim("f32"), DeserializeF32(Cur))

CallDeserializeU128 ==
  Step("deserialize_u128", Prim("u128"), DeserializeU128(Cur))

CallDeserializeStr ==
  Step("deserialize_str", Prim("str"), DeserializeStr(Cur))

CallDeserializeSeq ==
  \E T \in SeqTargets : Step("deserialize_seq", T, DeserializeSeq(Cur, T.of[1]))

CallDeserializeTuple ==
  \E T \in TupleTargets : Step("deserialize_tuple", T, DeserializeTuple(Cur, T.of))

CallDeserializeStruct ==
  \E T \in StructTargets : Step("deserialize_struct", T, DeserializeStruct(Cur, T.names, T.of))

CallDeserializeMap ==
  \E T \in MapTargets : Step("deserialize_map", T, DeserializeMap(Cur, T.of[1], T.of[2]))

CallDeserializeEnum ==
  \E T \in EnumTargets : Step("deserialize_enum", T, DeserializeEnum(Cur, T.names))

CallDeserializeIgnoredAny ==
  Step("deserialize_ignored_any", Prim("ignored_any"),
       DeserializeIgnoredAny(Cur))

CallDeserializeAny ==
  Step("deserialize_any", Prim("any"), DeserializeAny(Cur))

\* CstVal::deserialize(&mut deserializer)
CallDeserializeCstVal == Step("deserialize_cstval", CstVal, CstValDeserialize(Cur))

\* BodyDeserializer { header: &header }.deserialize(&mut deserializer)
CallDeserializeBody ==
  Step("deserialize_body", BodyDeserializer(header),
       BodyDeserialize(Cur, header))

Next ==
  \/ CallFromBytes
  \/ CallValidateHeader
  \/ CallDeserializeBool
  \/ CallDeserializeI32
  \/ CallDeserializeU8
  \/ CallDeserializeU16
  \/ CallDeserializeU32
  \/ CallDeserializeF32
  \/ CallDeserializeU128
  \/ CallDeserializeStr
  \/ CallDeserializeSeq
  \/ CallDeserializeTuple
  \/ CallDeserializeStruct
  \/ CallDeserializeMap
  \/ CallDeserializeEnum
  \/ CallDeserializeIgnoredAny
  \/ CallDeserializeAny
  \/ CallDeserializeCstVal
  \/ CallDeserializeBody

\* the decoder over the header variants
InitHeader == InitOver(HeaderBuffers)

SpecHeader == InitHeader /\ [][Next]_vars

\* the decoder over the token streams behind a well-formed header
InitTokens == InitOver(TokenBuffers)

SpecTokens == InitTokens /\ [][Next]_vars

\* the decoder over the record and sequence streams
InitShapes == InitOver(ShapeBuffers)

SpecShapes == InitShapes /\ [][Next]_vars

\* the decoder over the CstVal streams
InitCstVal == InitOver(CstValBuffers)

SpecCstVal == InitCstVal /\ [][Next]_vars

\* the decoder over the Body streams, with a Header of each num_f0_models
InitBody == InitWith(BodyBuffers, HeadersUpTo(MaxModels))

SpecBody == InitBody /\ [][Next]_vars

(***************************************************************************)
(* What the last call did, read off pre, res and the state after it.       *)
(***************************************************************************)
\* the bytes the last call consumed
Consumed == Take(pre.input, Len(pre.input) - Len(input))

IsHeaderRead(e) == e[1] \in {"signature", "marker"}

RECURSIVE HeaderLen(_)
\* how many of the bytes a log accounts for are header bytes
HeaderLen(log) ==
  IF log = <<>>
  THEN 0
  ELSE (IF IsHeaderRead(Head(log)) THEN Head(log)[2] ELSE 0) + HeaderLen(Tail(log))

RECURSIVE FieldBytesOf(_, _)
\* the bytes of s that the reads of log took as field bytes, in order
FieldBytesOf(log, s) ==
  IF log = <<>>
  THEN <<>>
  ELSE (IF IsHeaderRead(Head(log)) THEN <<>> ELSE Take(s, Head(log)[2]))
         \o FieldBytesOf(Tail(log), Drop(s, Head(log)[2]))

\* the field bytes the last call consumed
FieldBytes == FieldBytesOf(res.log, pre.input)

\* the last call read a count of the given kind
ReadA(what) == \E i \in 1..Len(res.log) : res.log[i][1] = what

\* what lay behind the header bytes the last call consumed
Stream == Drop(pre.input, HeaderLen(res.log))

\* signature, 0x00 separator and a whole 4-byte marker
WellFormedHeader(s) ==
  /\ StartsWith(s, CST_FLITE_HEADER \o <<0>>)
  /\ Len(s) >= Len(CST_FLITE_HEADER) + 5

(***************************************************************************)
(* C1.  validate_header is idempotent per Deserializer: on a buffer with a *)
(* valid signature, separator and 4-byte marker the first call consumes    *)
(* exactly 30 bytes and sets byteswapped; every later call on the same     *)
(* Deserializer succeeds, consumes nothing and leaves byteswapped alone.   *)
(***************************************************************************)
C1_ValidateIdempotent ==
  op = "validate_header" =>
    /\ (pre.byteswapped = None /\ WellFormedHeader(pre.input)) =>
         /\ res.kind = "Ok"
         /\ input = Drop(pre.input, 30)
         /\ byteswapped # None
    /\ pre.byteswapped # None =>
         /\ res.kind = "Ok"
         /\ input = pre.input
         /\ byteswapped = pre.byteswapped

\* a second validate_header right after the one that consumed the header
C1_Witness ==
  /\ op = "validate_header"
  /\ res.kind = "Ok"
  /\ pre.byteswapped # None
  /\ pre.input = Drop(buf, 30)
  /\ Len(input) > 0

(***************************************************************************)
(* C2.  The first validate_header succeeds only if the buffer starts with  *)
(* the 25-byte signature immediately followed by a 0x00 separator; when    *)
(* the signature is missing, or byte 25 is absent or not 0x00, it fails    *)
(* with InvalidHeader.                                                     *)
(***************************************************************************)
C2_SeparatorRequired ==
  (op = "validate_header" /\ pre.byteswapped = None) =>
    /\ res.kind = "Ok" => StartsWith(pre.input, CST_FLITE_HEADER \o <<0>>)
    /\ ~StartsWith(pre.input, CST_FLITE_HEADER \o <<0>>) =>
         (res.kind = "Err" /\ res.err = <<"InvalidHeader">>)

(***************************************************************************)
(* C3.  byteswapped starts unset; it is set only by validate_header, to    *)
(* swapped iff the 4-byte little-endian marker behind signature and        *)
(* separator differs from 1; once set it never changes, whatever calls     *)
(* follow.                                                                 *)
(***************************************************************************)
\* the marker bytes the call that made res' read, if it read a marker
MarkerRead(log, s) ==
  IF log = <<>> \/ Head(log)[1] # "signature" \/ Len(log) < 2
     \/ log[2][1] # "marker"
  THEN <<>>
  ELSE SubSeq(s, Head(log)[2] + 1, Head(log)[2] + 4)

C3_FlagSetOnce ==
  /\ op = "new" => byteswapped = None
  /\ [][/\ byteswapped # None => byteswapped' = byteswapped
        /\ (byteswapped = None /\ byteswapped' # None) =>
             /\ MarkerRead(res'.log, input) # <<>>
             /\ byteswapped' = Some(FromLeBytes4(MarkerRead(res'.log, input)) # 1)
       ]_vars

\* a call on a Deserializer whose flag says swapped, which an earlier call set
C3_Witness ==
  /\ byteswapped = Some(TRUE)
  /\ pre.byteswapped = Some(TRUE)
  /\ op = "deserialize_i32"
  /\ res.kind = "Ok"

(***************************************************************************)
(* C4.  The top-level decode and every text-mode read (boolean, string,    *)
(* enum name) validate the header before reading any field byte, so no     *)
(* field byte of a top-level decode is consumed while byteswapped is       *)
(* unset; the raw-binary reads (i32, u8, u16, u32, f32) never validate.    *)
(***************************************************************************)
C4_ValidateBeforeFields ==
  /\ op \in {"from_bytes", "deserialize_bool", "deserialize_str",
             "deserialize_enum"} =>
       \A i \in 1..Len(res.log) :
         ~IsHeaderRead(res.log[i]) => res.log[i][3] # None
  /\ op \in {"deserialize_i32", "deserialize_u8", "deserialize_u16",
             "deserialize_u32", "deserialize_f32"} =>
       /\ byteswapped = pre.byteswapped
       /\ \A i \in 1..Len(res.log) : ~IsHeaderRead(res.log[i])

(***************************************************************************)
(* C5.  A length-prefixed string read takes a 4-byte little-endian count L *)
(* that includes the trailing null, returns the first L-1 payload bytes as *)
(* text and advances by exactly 4+L; it fails with WrongLength(L) when the *)
(* L-th payload byte is not 0 and with Eof when fewer than L payload bytes *)
(* remain.                                                                 *)
(***************************************************************************)
C5_StringRead ==
  (op = "deserialize_str" /\ ReadA("strlen")) =>
    LET L == FromLeBytes4(Take(Stream, 4))
        payload == Drop(Stream, 4)
    IN  /\ res.kind = "Ok" =>
             /\ res.val = Take(payload, L - 1)
             /\ input = Drop(payload, L)
             /\ Len(FieldBytes) = 4 + L
        /\ (L >= 1 /\ L <= Len(payload) /\ payload[L] = 0
              /\ \A i \in 1..(L - 1) : payload[i] < 128) =>
             res.kind = "Ok"
        /\ (L >= 1 /\ L <= Len(payload) /\ payload[L] # 0) =>
             (res.kind = "Err" /\ res.err = <<"WrongLength", L>>)
        /\ (L < 0 \/ L > Len(payload)) =>
             (res.kind = "Err" /\ res.err = <<"Eof">>)

\* a text of one byte decoded from a count of 2
C5_Witness ==
  /\ op = "deserialize_str"
  /\ res.kind = "Ok"
  /\ Len(res.val) = 1
  /\ FromLeBytes4(Take(Stream, 4)) = 2

(***************************************************************************)
(* C6.  A boolean decode requires the declared size to be exactly 1: with  *)
(* declared size 1 the result is true iff the single data byte is nonzero  *)
(* (0x09 gives true, 0x00 gives false); with any other declared size the   *)
(* decode fails with ExpectedSize.                                         *)
(***************************************************************************)
C6_BoolDecode ==
  (op = "deserialize_bool" /\ ReadA("boolsize")) =>
    LET size == FromLeBytes4(Take(Stream, 4))
        data == Drop(Stream, 4)
    IN  /\ size # 1 => (res.kind = "Err" /\ res.err = <<"ExpectedSize", size, 1>>)
        /\ (size = 1 /\ Len(data) >= 2) =>
             (res.kind = "Ok" /\ res.val = (data[1] # 0))
        /\ res.kind = "Ok" => (size = 1 /\ res.val = (data[1] # 0))

\* the data byte 0x09 decoded as true
C6_Witness ==
  /\ op = "deserialize_bool"
  /\ res.kind = "Ok"
  /\ res.val = TRUE
  /\ Take(Stream, 6) = Word(1) \o <<9, 0>>

(***************************************************************************)
(* The wire form the claims measure a decode against.                      *)
(***************************************************************************)
\* the four little-endian bytes of a 32-bit word held as a residue
ToLeBytes4(v) ==
  <<v % 256, (v \div 256) % 256, (v \div 65536) % 256, (v \div 16777216) % 256>>

RECURSIVE Encode(_, _)
RECURSIVE EncodeAll(_, _, _)
\* the wire form of the value v of the target T: a text with its count and
\* null, a raw word, a sequence as its count and its elements, a tuple as its
\* elements alone
Encode(T, v) ==
  CASE T.k = "str" -> StrField(v)
    [] T.k = "i32" -> ToLeBytes4(v)
    [] T.k = "seq" -> ToLeBytes4(Len(v)) \o EncodeAll([i \in 1..Len(v) |-> T.of[1]], v, 1)
    [] T.k = "tuple" -> EncodeAll(T.of, v, 1)

\* the wire forms of v[i], v[i+1], .. of the targets Ts[i], Ts[i+1], ..
EncodeAll(Ts, v, i) ==
  IF i > Len(v) THEN <<>> ELSE Encode(Ts[i], v[i]) \o EncodeAll(Ts, v, i + 1)

\* the orders in which k fields may come
Orders(k) == {p \in [1..k -> 1..k] : \A i, j \in 1..k : p[i] = p[j] => i = j}

RECURSIVE EncodeFields(_, _, _, _)
\* the wire form of a record: per field, in the order p, the name as a text
\* and then the value
EncodeFields(T, v, p, i) ==
  IF i > Len(T.names)
  THEN <<>>
  ELSE StrField(T.names[p[i]]) \o Encode(T.of[p[i]], v[p[i]])
         \o EncodeFields(T, v, p, i + 1)

RECURSIVE Texts(_)
\* the well-formed length-prefixed texts a stream opens with
Texts(s) ==
  IF Len(s) < 4
  THEN <<>>
  ELSE LET L == FromLeBytes4(Take(s, 4))
       IN  IF L < 1 \/ L > Len(s) - 4
           THEN <<>>
           ELSE IF s[4 + L] # 0
           THEN <<>>
           ELSE <<SubSeq(s, 5, 3 + L)>> \o Texts(Drop(s, 4 + L))

IsDigits(t) == t # <<>> /\ \A i \in 1..Len(t) : t[i] \in 48..57

RECURSIVE DecimalValue(_)
\* the integer a decimal text denotes
DecimalValue(t) ==
  IF t = <<>> THEN 0 ELSE 10 * DecimalValue(Take(t, Len(t) - 1)) + (t[Len(t)] - 48)

(***************************************************************************)
(* C7.  Decoding a correctly length-prefixed ASCII decimal text as an      *)
(* unsigned 128-bit integer yields the integer the text denotes.           *)
(***************************************************************************)
C7_TextU128 ==
  (op = "deserialize_u128" /\ pre.byteswapped # None
     /\ Texts(pre.input) # <<>> /\ IsDigits(Texts(pre.input)[1])) =>
    (res.kind = "Ok" /\ res.val = DecimalValue(Texts(pre.input)[1]))

(***************************************************************************)
(* C8.  During a record decode, if the field name read from the stream at  *)
(* position i differs from the i-th declared field name (also when it is a *)
(* declared name out of order), the decode fails with                      *)
(* FieldNotFound(expected) and yields no record.                           *)
(***************************************************************************)
C8_FieldNameMismatch ==
  (op = "deserialize_struct" /\ pre.byteswapped # None
     /\ \A i \in 1..Len(arg.of) : arg.of[i] = Prim("str")) =>
    LET t == Texts(pre.input)
    IN  \A i \in 1..Len(arg.names) :
          (/\ Len(t) >= 2 * i - 1
           /\ \A j \in 1..(i - 1) : t[2 * j - 1] = arg.names[j]
           /\ t[2 * i - 1] # arg.names[i]) =>
            (res.kind = "Err" /\ res.err = <<"FieldNotFound", arg.names[i]>>)

(***************************************************************************)
(* C9.  A record decode with k declared fields reads exactly k (name,      *)
(* value) pairs, the name before the value each time, and then stops: the  *)
(* field bytes it consumes are the k names, each followed by its value,    *)
(* with no count, terminator or further byte.                              *)
(***************************************************************************)
C9_RecordReadsKPairs ==
  (op \in {"deserialize_struct", "from_bytes"} /\ arg \in StructTargets
     /\ res.kind = "Ok") =>
    /\ Len(res.val) = Len(arg.names)
    /\ \E p \in Orders(Len(arg.names)) :
         FieldBytes = EncodeFields(arg, res.val, p, 1)

\* a record of two fields decoded from two names and two values
C9_Witness ==
  /\ op = "deserialize_struct"
  /\ res.kind = "Ok"
  /\ Len(arg.names) = 2
  /\ pre.byteswapped # None
  /\ Len(Consumed) = 24
  /\ Len(input) = 0

Encodes(T, v, s) ==
  IF T.k = "bool"
  THEN Len(s) = 6 /\ Take(s, 4) = Word(1) /\ (s[5] # 0) = v
  ELSE s = Encode(T, v)

RECURSIVE EncodesAll(_, _, _, _)
\* s is wire forms of v[i], v[i+1], .. of the targets Ts[i], Ts[i+1], .., one
\* after the other
EncodesAll(Ts, v, i, s) ==
  IF i > Len(Ts)
  THEN s = <<>>
  ELSE \E n \in 0..Len(s) :
         /\ Encodes(Ts[i], v[i], Take(s, n))
         /\ EncodesAll(Ts, v, i + 1, Drop(s, n))

C11_TupleReadsNElements ==
  (op \in {"deserialize_tuple", "from_bytes"} /\ arg \in TupleTargets
     /\ res.kind = "Ok") =>
    /\ Len(res.val) = Len(arg.of)
    /\ EncodesAll(arg.of, res.val, 1, FieldBytes)

\* a tuple of three elements decoded from two raw words and a text
C11_Witness ==
  /\ op = "deserialize_tuple"
  /\ res.kind = "Ok"
  /\ Len(arg.of) = 3
  /\ \A i \in 1..Len(res.log) : res.log[i][1] # "seqlen"
  /\ FieldBytes = Word(2) \o Word(1) \o StrField(NameA)

(***************************************************************************)
(* C12.  A map decode repeatedly decodes a key and then a value, reading   *)
(* no count, and ends exactly when the buffer is exhausted at a key        *)
(* boundary; the resulting map holds every decoded pair.                   *)
(***************************************************************************)
RECURSIVE EncodeTexts(_)
\* the wire form of a run of texts
EncodeTexts(t) ==
  IF t = <<>> THEN <<>> ELSE StrField(Head(t)) \o EncodeTexts(Tail(t))

\* the (key, value) pairs a run of texts holds, in order
PairsOf(t) == [i \in 1..(Len(t) \div 2) |-> <<t[2 * i - 1], t[2 * i]>>]

\* s is whole pairs of texts and nothing else: its end is a key boundary
IsPairs(s) ==
  /\ EncodeTexts(Texts(s)) = s
  /\ Len(Texts(s)) % 2 = 0
  /\ \A i \in 1..Len(Texts(s)) : IsUtf8(Texts(s)[i])

\* a decode into a map of texts: what it reads and when it ends
MapReadsPairs ==
  /\ res.kind = "Ok" =>
       /\ input = <<>>
       /\ ~ReadA("seqlen")
       /\ IsPairs(FieldBytes)
  /\ (op = "deserialize_map" /\ pre.byteswapped # None /\ IsPairs(pre.input)) =>
       (res.kind = "Ok" /\ FieldBytes = pre.input)

\* the claim as stated: every decoded pair is in the map
C12_MapHoldsEveryPair ==
  (op \in {"deserialize_map", "from_bytes"} /\ arg \in MapTargets) =>
    /\ MapReadsPairs
    /\ res.kind = "Ok" =>
         \A i \in 1..Len(PairsOf(Texts(FieldBytes))) :
           PairsOf(Texts(FieldBytes))[i] \in res.val

\* the claim as amended: of the pairs decoded with one key the map holds the
\* last, and it holds nothing else
C12_MapHoldsLastPairs ==
  (op \in {"deserialize_map", "from_bytes"} /\ arg \in MapTargets) =>
    /\ MapReadsPairs
    /\ res.kind = "Ok" =>
         LET ps == PairsOf(Texts(FieldBytes))
         IN  res.val = {ps[i] : i \in {j \in 1..Len(ps) :
                                         \A l \in (j + 1)..Len(ps) :
                                           ps[l][1] # ps[j][1]}}

\* a map decoded from two pairs of distinct keys up to the end of the buffer
C12_Witness ==
  /\ op = "deserialize_map"
  /\ res.kind = "Ok"
  /\ Len(Texts(FieldBytes)) = 4
  /\ Cardinality(res.val) = 2
  /\ input = <<>>

(***************************************************************************)
(* C13.  A CstVal decode reads exactly one raw i32 discriminant followed   *)
(* by exactly one payload selected by the tag (0, 1, 7 and every           *)
(* unrecognised tag a raw i32, 3 a raw f32, 5 a length-prefixed text) and  *)
(* nothing else, so a CstVal that is not a text consumes exactly 8 bytes.  *)
(***************************************************************************)
C13_CstValReadsTagAndPayload ==
  (op \in {"deserialize_cstval", "from_bytes"} /\ arg = CstVal) =>
    /\ res.kind = "Ok" =>
         LET tag == FromLeBytes4(Take(FieldBytes, 4))
             payload == Drop(FieldBytes, 4)
         IN  /\ res.val[1] = CstValVariant(tag)[1]
             /\ IF tag = 5
                THEN payload = StrField(res.val[2])
                ELSE payload = ToLeBytes4(res.val[2])
             /\ tag # 5 => Len(FieldBytes) = 8
    /\ (pre.byteswapped # None /\ Len(pre.input) >= 8
          /\ FromLeBytes4(Take(pre.input, 4)) # 5) =>
         (res.kind = "Ok" /\ Len(Consumed) = 8)

(***************************************************************************)
(* What a Body decode read: res.val is the Body, its six fields in order.  *)
(***************************************************************************)
\* the field bytes behind db_types, num_types, sample_rate, f0_mean, f0_stddev
TreeBytes == Drop(FieldBytes, Len(Encode(SeqOf(Prim("str")), res.val[1])) + 16)

RECURSIVE WireLen(_, _)
RECURSIVE WireLenAll(_, _, _)
\* how many bytes the decode of the value v of the target T consumes: a text
\* its count, bytes and null, a raw number its 4-byte slot, a sequence its
\* count and elements, a tuple its elements, a CstVal the count, discriminant
\* and payload CstValVisitor is given (C13)
WireLen(T, v) ==
  CASE T.k = "str" -> 5 + Len(v)
    [] T.k \in {"i32", "u8", "u16", "u32", "f32"} -> 4
    [] T.k = "seq" -> 4 + WireLenAll([i \in 1..Len(v) |-> T.of[1]], v, 1)
    [] T.k = "tuple" -> WireLenAll(T.of, v, 1)
    [] T.k = "cstval" -> 8 + WireLen(IF v[1] = "Str" THEN Prim("str") ELSE Prim("i32"),
                                    v[2])

WireLenAll(Ts, v, i) ==
  IF i > Len(v) THEN 0 ELSE WireLen(Ts[i], v[i]) + WireLenAll(Ts, v, i + 1)

\* the 32-bit word at byte offset off of s
WordAt(s, off) == FromLeBytes4(SubSeq(s, off + 1, off + 4))

(***************************************************************************)
(* C14.  The element count of Body.f0_trees comes from                     *)
(* header.features.num_f0_models and no array count for f0_trees is read   *)
(* from the stream, whatever num_f0_models is: with num_f0_models = 0 the  *)
(* field is an empty array of zero bytes, and otherwise the bytes of the   *)
(* field open with the first F0Tree's own count.                           *)
(***************************************************************************)
C14_NoCountForTrees ==
  (op = "deserialize_body" /\ res.kind = "Ok") =>
    /\ Len(res.val[6]) = header.features.num_f0_models
    /\ header.features.num_f0_models = 0 =>
         (res.val[6] = <<>> /\ TreeBytes = <<>>)
    /\ header.features.num_f0_models >= 1 =>
         /\ WordAt(TreeBytes, 0) = Len(res.val[6][1])
         /\ Len(TreeBytes) = WireLenAll([i \in 1..Len(res.val[6]) |-> F0Tree],
                                        res.val[6], 1)

(***************************************************************************)
(* C15.  Whenever a Body decode succeeds with num_f0_models = n, f0_trees  *)
(* holds exactly n F0Trees, each decoded as a dynamic sequence with its    *)
(* own inline count, and the Header given as context is unchanged by the   *)
(* Body decode.                                                            *)
(***************************************************************************)
\* where the i-th F0Tree starts in TreeBytes: behind the word the visitor's
\* SeqValues reads first and the F0Trees before it
TreeOffset(i) ==
  4 + WireLenAll([j \in 1..(i - 1) |-> F0Tree], SubSeq(res.val[6], 1, i - 1), 1)

BodyHoldsNTrees ==
  LET n == header.features.num_f0_models
  IN  /\ Len(res.val[6]) = n
      /\ \A i \in 1..n : WordAt(TreeBytes, TreeOffset(i)) = Len(res.val[6][i])
      /\ Len(TreeBytes) = IF n = 0 THEN 0 ELSE TreeOffset(n + 1)

RawReads ==
  {"deserialize_i32", "deserialize_u8", "deserialize_u16", "deserialize_u32",
   "deserialize_f32"}

C16_RawSlotIsFourBytes ==
  op \in RawReads =>
    IF Len(pre.input) >= 4
    THEN /\ res.kind = "Ok"
         /\ input = Drop(pre.input, 4)
         /\ res.val = CASE op = "deserialize_u8" -> pre.input[1]
                         [] op = "deserialize_u16" -> pre.input[1] + 256 * pre.input[2]
                         [] OTHER -> FromLeBytes4(Take(pre.input, 4))
    ELSE /\ res.kind = "Err"
         /\ res.err = <<"Eof">>
         /\ input = pre.input

\* a u8 read that took the whole slot for its one byte, the slot's other
\* bytes not all zero
C16_Witness ==
  /\ op = "deserialize_u8"
  /\ res.kind = "Ok"
  /\ Len(Consumed) = 4
  /\ res.val = Consumed[1]
  /\ Consumed[3] # 0

(***************************************************************************)
(* C17.  The byteswapped flag governs how a raw numeric slot is read: the  *)
(* same 4 bytes are read little-endian when the flag says native and       *)
(* byte-swapped (big-endian) when it says swapped, so a slot whose bytes   *)
(* are no palindrome gives two different values under the two flags.       *)
(***************************************************************************)
\* a 4-byte slot read with its bytes swapped
FromBeBytes4(s) == FromLeBytes4(<<s[4], s[3], s[2], s[1]>>)

C17_FlagGovernsRawReads ==
  (op \in {"deserialize_i32", "deserialize_u32", "deserialize_f32"}
     /\ res.kind = "Ok" /\ pre.byteswapped # None) =>
    res.val = IF pre.byteswapped = Some(TRUE)
              THEN FromBeBytes4(Consumed)
              ELSE FromLeBytes4(Consumed)

(***************************************************************************)
(* C18.  Across any sequence of decode calls, successful or failing, the   *)
(* read position only advances: the remaining input is always a suffix of  *)
(* the remaining input before the call, and the position never exceeds the *)
(* length of the buffer.                                                   *)
(***************************************************************************)
IsSuffix(s, t) == Len(s) <= Len(t) /\ s = Drop(t, Len(t) - Len(s))

\* the read position: how far into the buffer the remaining input starts
Position == Len(buf) - Len(input)

C18_PositionOnlyAdvances ==
  [][/\ IsSuffix(input', input)
     /\ IsSuffix(input', buf')
     /\ Position' >= Position
     /\ Position' <= Len(buf')
    ]_vars

\* a failing call that advanced all the same, after a call that succeeded
C18_Witness ==
  /\ res.kind = "Err"
  /\ pre.byteswapped # None
  /\ Len(input) < Len(pre.input)
  /\ Len(pre.input) < Len(buf)

(***************************************************************************)
(* C19.  An unconstrained decode request (any, ignored any) is unsupported *)
(* and fails at once: it produces no value, consumes no input, and the     *)
(* failure reaches the top-level caller as a decode failure, an error      *)
(* value.                                                                  *)
(***************************************************************************)
C19_AnyFailsWithError ==
  (\/ op \in {"deserialize_any", "deserialize_ignored_any"}
   \/ op = "from_bytes" /\ arg = Prim("ignored_any")) =>
    /\ res.kind = "Err"
    /\ res.val = <<>>
    /\ input = pre.input

(***************************************************************************)
(* C20.  A validate_header call that fails changes nothing: input and      *)
(* byteswapped are as before the call, so a second validate_header on the  *)
(* same Deserializer fails again with the same error, also on a buffer     *)
(* that holds signature and separator but fewer than 4 marker bytes.       *)
(***************************************************************************)
C20_FailedValidateChangesNothing ==
  /\ [][(op' = "validate_header" /\ res'.kind = "Err") =>
          (input' = input /\ byteswapped' = byteswapped)]_vars
  /\ [][(op = "validate_header" /\ res.kind = "Err" /\ op' = "validate_header") =>
          (res'.kind = "Err" /\ res'.err = res.err)]_vars

(***************************************************************************)
(* C21.  A length-prefixed string read that has read its declared length   *)
(* L, whatever L is and also for L = 0, ends in a decoded text or in one   *)
(* of the error values Eof, WrongLength and NotUtf8: it never aborts the   *)
(* program.                                                                *)
(***************************************************************************)
C21_StringReadNeverAborts ==
  ((\/ op = "deserialize_str"
    \/ op = "from_bytes" /\ arg = Prim("str"))
     /\ ReadA("strlen")) =>
    \/ res.kind = "Ok"
    \/ res.kind = "Err" /\ res.err[1] \in {"Eof", "WrongLength", "NotUtf8"}

====
